---- MODULE Spec2Model ----
(***************************************************************************)
(* Resource-ownership resolution of the on-call assistant: the pattern     *)
(* matcher, the catalog read paths, the in-process handler registry, the   *)
(* ownership resolver and the get_resource / find_resource_owner tools,    *)
(* together with the catalog write paths of the REST API server.           *)
(*                                                                         *)
(* Strings that the code inspects character by character (resource ids,    *)
(* glob patterns, regular expressions) are sequences of one-character      *)
(* strings.  A value that may be null/undefined in the code is a sequence  *)
(* of length 0 (None) or 1 (Some(v)).  JavaScript objects built key by key *)
(* are functions whose DOMAIN is the set of keys present.                  *)
(*                                                                         *)
(* A row of the services table carries the columns the resolution reads:   *)
(* name, team, slack_channel, pager_alias, observability, resources and    *)
(* dependencies.  The table is scanned without                             *)
(* ORDER BY: between two writes every scan returns the rows in the same    *)
(* order, the catalog iteration order, and a write may put its row at any  *)
(* place of that order.                                                    *)
(***************************************************************************)
EXTENDS Integers, Sequences, FiniteSets, TLC

VARIABLES
    catalog,    \* rows of the services table, in the order a scan returns them
    handlers,   \* DefaultResourceHandlerRegistry.handlers: insertion-ordered Map
    pc,         \* position of the tool call in flight ("idle" when there is none)
    call,       \* the locals of the tool call in flight
    result,     \* what the last finished tool call gave its caller
    last        \* the caller's note of an earlier getResource response

vars == <<catalog, handlers, pc, call, result, last>>

None == <<>>
Some(v) == <<v>>
IsSome(o) == Len(o) = 1
Get(o) == o[1]

\* {}: the object without a key.
EmptyObject == [k \in {} |-> None]

----------------------------------------------------------------------------
(* Bounds and input universes *)

MaxHandlers == 2

ServiceNames == {"order-service", "user-service", "auth-service"}

IdOrd == <<"o", "r", "d", "-", "1">>
IdXyz == <<"x", "y", "z", "-", "0">>
ResourceIds == {IdOrd, IdXyz}

PatOrd == <<"o", "r", "d", "-", "*">>
PatAll == <<"*">>
PatTok == <<"t", "o", "k", "-", "*">>
PatSess == <<"s", "e", "s", "s", "-", "*">>
RegistryPatterns == {PatOrd, PatAll}

HandlerIds == {"h1", "h2"}

UrlTemplate == <<"https://order-service.internal/api/resources/", "${id}">>

----------------------------------------------------------------------------
(* Pattern Matcher *)

\* pattern.replace(/\*/g, ".*")
RECURSIVE ReplaceStars(_)
ReplaceStars(pattern) ==
    IF pattern = <<>> THEN <<>>
    ELSE IF Head(pattern) = "*"
         THEN <<".", "*">> \o ReplaceStars(Tail(pattern))
         ELSE <<Head(pattern)>> \o ReplaceStars(Tail(pattern))

\* "^" + pattern.replace(/\*/g, ".*") + "$"
RegexStr(pattern) == <<"^">> \o ReplaceStars(pattern) \o <<"$">>

\* Nesting depth of the groups of a regular expression after its first n
\* characters; -1 as soon as a ")" closes a group that was never opened.
RECURSIVE GroupDepth(_, _)
GroupDepth(re, n) ==
    IF n = 0 THEN 0
    ELSE LET d == GroupDepth(re, n - 1) IN
         IF d < 0 THEN -1
         ELSE IF re[n] = "(" THEN d + 1
         ELSE IF re[n] = ")" THEN d - 1
         ELSE d

\* new RegExp(regexStr) throws a SyntaxError on unbalanced groups.
RegExpSyntaxError(re) == GroupDepth(re, Len(re)) # 0

AtomMatches(atom, ch) == atom = "." \/ atom = ch

\* Does the regular expression re, from its i-th character on, match the
\* string s from its j-th character on?  Atoms are single characters, "."
\* is any character, an atom followed by "*" repeats, "^" and "$" are the
\* anchors and groups only delimit.
RECURSIVE MatchHere(_, _, _, _)
MatchHere(re, i, s, j) ==
    IF i > Len(re) THEN TRUE
    ELSE IF re[i] = "^" THEN j = 1 /\ MatchHere(re, i + 1, s, j)
    ELSE IF re[i] = "$" THEN j = Len(s) + 1 /\ MatchHere(re, i + 1, s, j)
    ELSE IF re[i] \in {"(", ")"} THEN MatchHere(re, i + 1, s, j)
    ELSE IF i < Len(re) /\ re[i + 1] = "*"
         THEN \E k \in j..(Len(s) + 1) :
                 /\ \A m \in j..(k - 1) : AtomMatches(re[i], s[m])
                 /\ MatchHere(re, i + 2, s, k)
         ELSE /\ j <= Len(s)
              /\ AtomMatches(re[i], s[j])
              /\ MatchHere(re, i + 1, s, j + 1)

\* regex.test(id): a search for a match starting anywhere in id.
RegExpTest(re, s) == \E j \in 1..(Len(s) + 1) : MatchHere(re, 1, s, j)

\* A matchPattern whose regular expression lacks the leading anchor.
matchPattern_unanchored(pattern, id) ==
    RegExpTest(ReplaceStars(pattern) \o <<"$">>, id)

\* matchPattern raises exactly when the RegExp constructor does.
matchPatternThrows(pattern) == RegExpSyntaxError(RegexStr(pattern))

matchPattern(pattern, id) == RegExpTest(RegexStr(pattern), id)

----------------------------------------------------------------------------
(* Catalog Store *)

Internal(n) == [name |-> n, type |-> "internal", critical |-> TRUE]
Database(n) == [name |-> n, type |-> "database", critical |-> TRUE]

\* ResourceEntry: handler_url is None where the entry declares none.
Entry(p, t, u) ==
    [pattern |-> p, type |-> t, description |-> <<"describes", t>>, handler_url |-> u]

TeamOf(n) ==
    CASE n = "order-service" -> "commerce"
      [] n = "user-service" -> "payments"
      [] n = "auth-service" -> "identity"

SlackOf(n) == <<"#", TeamOf(n), "-oncall">>
PagerOf(n) == <<n, "-prod">>
ObservabilityOf(n) == [grafana_uid |-> <<n, "-overview">>]

\* The service.yaml files a GitOps push can carry: Partial<ServiceCatalog>,
\* a field the file leaves out being None.
YamlConfig(n, res, deps) ==
    [name |-> n, team |-> Some(TeamOf(n)),
     slack_channel |-> Some(SlackOf(n)), pager_alias |-> Some(PagerOf(n)),
     observability |-> Some(ObservabilityOf(n)),
     resources |-> res, dependencies |-> deps]

ServiceYamls ==
    { YamlConfig("order-service",
                 Some(<<Entry(PatOrd, "order", None)>>),
                 Some(<<Internal("user-service"), Internal("inventory-service")>>)),
      YamlConfig("order-service",
                 Some(<<Entry(PatOrd, "order", Some(UrlTemplate))>>),
                 Some(<<Internal("user-service"), Internal("inventory-service")>>)),
      YamlConfig("user-service",
                 Some(<<Entry(PatTok, "user-token", None), Entry(PatOrd, "user-order", None)>>),
                 Some(<<Internal("auth-service"), Database("order-service")>>)),
      YamlConfig("user-service",
                 Some(<<Entry(PatAll, "anything", None)>>),
                 Some(<<>>)),
      YamlConfig("auth-service",
                 Some(<<Entry(PatSess, "session", None), Entry(PatAll, "token", None)>>),
                 Some(<<Database("user-service"), Internal("order-service")>>)),
      YamlConfig("auth-service", None, None) }

\* The bodies POST /api/services is called with.
CreateBodies ==
    { [name |-> "auth-service", team |-> "identity",
       slack_channel |-> SlackOf("auth-service"),
       pager_alias |-> PagerOf("auth-service"),
       observability |-> ObservabilityOf("auth-service"),
       dependencies |-> <<>>] }

\* A row of the services table; resources is None for SQL NULL.
Row(n, t, slack, pager, obs, res, deps) ==
    [name |-> n, team |-> t, slack_channel |-> slack, pager_alias |-> pager,
     observability |-> obs, resources |-> res, dependencies |-> deps]

Names(rows) == {rows[i].name : i \in 1..Len(rows)}

\* "SELECT ... FROM services": every row, in scan order.
query_all(rows) == rows

\* "SELECT ... FROM services WHERE resources IS NOT NULL"
query_with_resources(rows) == SelectSeq(rows, LAMBDA s : IsSome(s.resources))

\* A fetch by name whose WHERE clause is lost: every row comes back.
query_by_name_any(rows, n) == rows

\* "SELECT ... FROM services WHERE name = $1": name is the primary key.
query_by_name(rows, n) == SelectSeq(rows, LAMBDA s : s.name = n)

\* rows[0] || null
queryOne(rows) == IF Len(rows) > 0 THEN Some(rows[1]) ELSE None

\* What an awaited call gives back: a value (always a None/Some) or an error.
Returned(v) == [ok |-> TRUE, v |-> v, error |-> "none"]
Raised(e) == [ok |-> FALSE, v |-> None, error |-> e]

\* How a query of the backing store can end: pool.query resolves with the
\* rows or rejects because the store cannot be reached.
DbOutcomes == {"ok", "unreachable"}

----------------------------------------------------------------------------
(* Catalog read paths *)

\* for (const resource of service.resources) if (matchPattern(resource.pattern, id)):
\* the index of the first entry, from the i-th on, that matches; 0 when none
\* does; -1 when matchPattern raises before a match is found.
RECURSIVE firstMatchingEntry(_, _, _)
firstMatchingEntry(resources, i, id) ==
    IF i > Len(resources) THEN 0
    ELSE IF matchPatternThrows(resources[i].pattern) THEN -1
    ELSE IF matchPattern(resources[i].pattern, id) THEN i
    ELSE firstMatchingEntry(resources, i + 1, id)

\* if (service.resources) for (const resource of service.resources) ...
entryOf(service, id) ==
    IF IsSome(service.resources)
    THEN firstMatchingEntry(Get(service.resources), 1, id)
    ELSE 0

\* A getResourceTypeInfo scan without the early return: the last service
\* with a matching entry supplies the type info.
RECURSIVE typeInfoScan_last(_, _, _)
typeInfoScan_last(services, n, id) ==
    IF n > Len(services) THEN Returned(None)
    ELSE LET service == services[n]
             k == entryOf(service, id)
             later == typeInfoScan_last(services, n + 1, id)
         IN  IF k < 0 THEN Raised("SyntaxError")
             ELSE IF ~later.ok \/ IsSome(later.v) THEN later
             ELSE IF k > 0
                  THEN LET resource == Get(service.resources)[k] IN
                       Returned(Some([type |-> resource.type,
                                      pattern |-> resource.pattern,
                                      description |-> resource.description,
                                      ownerService |-> service.name]))
                  ELSE later

RECURSIVE typeInfoScan(_, _, _)
typeInfoScan(services, n, id) ==
    IF n > Len(services) THEN Returned(None)
    ELSE LET service == services[n]
             k == entryOf(service, id)
         IN  IF k < 0 THEN Raised("SyntaxError")
             ELSE IF k > 0
                  THEN LET resource == Get(service.resources)[k] IN
                       Returned(Some([type |-> resource.type,
                                      pattern |-> resource.pattern,
                                      description |-> resource.description,
                                      ownerService |-> service.name]))
                  ELSE typeInfoScan(services, n + 1, id)

\* A getResourceTypeInfo that takes a rejected query for an empty catalog.
getResourceTypeInfo_swallows(rows, db, id) ==
    IF db # "ok" THEN Returned(None)
    ELSE typeInfoScan(query_with_resources(rows), 1, id)

getResourceTypeInfo(rows, db, id) ==
    IF db # "ok" THEN Raised("CatalogUnavailable")
    ELSE typeInfoScan(query_with_resources(rows), 1, id)

CatalogOnlyNote ==
    "No handler registered. This is catalog-only info. For full resource status, the owning team should register a get_resource handler."

\* A lookupFromCatalog scan without the early return: the last service
\* with a matching entry supplies the catalog-only record.
RECURSIVE lookupScan_last(_, _, _)
lookupScan_last(services, n, id) ==
    IF n > Len(services) THEN Returned(None)
    ELSE LET service == services[n]
             k == entryOf(service, id)
             later == lookupScan_last(services, n + 1, id)
         IN  IF k < 0 THEN Raised("SyntaxError")
             ELSE IF ~later.ok \/ IsSome(later.v) THEN later
             ELSE IF k > 0
                  THEN LET resource == Get(service.resources)[k] IN
                       Returned(Some([id |-> id,
                                      status |-> "unknown",
                                      type |-> resource.type,
                                      owner_service |-> service.name,
                                      owner_team |-> service.team,
                                      resource_description |-> resource.description,
                                      dependencies |-> service.dependencies,
                                      observability |-> service.observability,
                                      note |-> CatalogOnlyNote]))
                  ELSE later

RECURSIVE lookupScan(_, _, _)
lookupScan(services, n, id) ==
    IF n > Len(services) THEN Returned(None)
    ELSE LET service == services[n]
             k == entryOf(service, id)
         IN  IF k < 0 THEN Raised("SyntaxError")
             ELSE IF k > 0
                  THEN LET resource == Get(service.resources)[k] IN
                       Returned(Some([id |-> id,
                                      status |-> "unknown",
                                      type |-> resource.type,
                                      owner_service |-> service.name,
                                      owner_team |-> service.team,
                                      resource_description |-> resource.description,
                                      dependencies |-> service.dependencies,
                                      observability |-> service.observability,
                                      note |-> CatalogOnlyNote]))
                  ELSE lookupScan(services, n + 1, id)

\* A lookupFromCatalog that has no catalog-only record to give.
lookupFromCatalog_absent(rows, db, id) ==
    IF db # "ok" THEN Raised("CatalogUnavailable") ELSE Returned(None)

lookupFromCatalog(rows, db, id) ==
    IF db # "ok" THEN Raised("CatalogUnavailable")
    ELSE lookupScan(query_with_resources(rows), 1, id)

\* An ownerScan without the early return: the last matching service wins.
RECURSIVE ownerScan_last(_, _, _)
ownerScan_last(services, n, id) ==
    IF n > Len(services) THEN Returned(None)
    ELSE LET k == entryOf(services[n], id)
             later == ownerScan_last(services, n + 1, id)
         IN  IF k < 0 THEN Raised("SyntaxError")
             ELSE IF ~later.ok \/ IsSome(later.v) THEN later
             ELSE IF k > 0 THEN Returned(Some(services[n].name))
             ELSE later

RECURSIVE ownerScan(_, _, _)
ownerScan(services, n, id) ==
    IF n > Len(services) THEN Returned(None)
    ELSE LET k == entryOf(services[n], id)
         IN  IF k < 0 THEN Raised("SyntaxError")
             ELSE IF k > 0 THEN Returned(Some(services[n].name))
             ELSE ownerScan(services, n + 1, id)

\* The first loop of findOwner queries the catalog once for every registered
\* pattern that matches and goes on to the next one when the scan finds no
\* owner; the scan after the loop is the same one.
\* A findOwner that scans the catalog only under a registered pattern that
\* matches, without the scan after the loop.
findOwnerLoop_registeredOnly(hs, n, rows, id) ==
    IF \E i \in n..Len(hs) : matchPattern(hs[i].pattern, id)
    THEN ownerScan(query_with_resources(rows), 1, id)
    ELSE Returned(None)

RECURSIVE findOwnerLoop(_, _, _, _)
findOwnerLoop(hs, n, rows, id) ==
    IF n > Len(hs) THEN ownerScan(query_with_resources(rows), 1, id)
    ELSE IF matchPatternThrows(hs[n].pattern) THEN Raised("SyntaxError")
    ELSE IF matchPattern(hs[n].pattern, id)
         THEN LET found == ownerScan(query_with_resources(rows), 1, id) IN
              IF ~found.ok \/ IsSome(found.v) THEN found
              ELSE findOwnerLoop(hs, n + 1, rows, id)
         ELSE findOwnerLoop(hs, n + 1, rows, id)

findOwner(hs, rows, db, id) ==
    IF db # "ok" THEN Raised("CatalogUnavailable")
    ELSE findOwnerLoop(hs, 1, rows, id)

\* A someInternal that does not look at the type of the dependency.
someInternal_anyType(dependencies, name) ==
    \E i \in 1..Len(dependencies) : dependencies[i].name = name

\* dependencies?.some((dep) => dep.type === "internal" && dep.name === name)
someInternal(dependencies, name) ==
    \E i \in 1..Len(dependencies) :
        dependencies[i].type = "internal" /\ dependencies[i].name = name

\* An ownerLoop without the break: the last matching service wins.
RECURSIVE ownerLoop_last(_, _, _)
ownerLoop_last(allServices, n, id) ==
    IF n > Len(allServices) THEN Returned(None)
    ELSE LET k == entryOf(allServices[n], id)
             later == ownerLoop_last(allServices, n + 1, id)
         IN  IF k < 0 THEN Raised("SyntaxError")
             ELSE IF ~later.ok \/ IsSome(later.v) THEN later
             ELSE IF k > 0 THEN Returned(Some(allServices[n]))
             ELSE later

\* The first loop of findServicesForResource: the first service, from the
\* n-th on, one of whose patterns matches.
RECURSIVE ownerLoop(_, _, _)
ownerLoop(allServices, n, id) ==
    IF n > Len(allServices) THEN Returned(None)
    ELSE LET k == entryOf(allServices[n], id)
         IN  IF k < 0 THEN Raised("SyntaxError")
             ELSE IF k > 0 THEN Returned(Some(allServices[n]))
             ELSE ownerLoop(allServices, n + 1, id)

\* The second loop: the services with a dependency edge to or from the owner.
RECURSIVE relatedLoop(_, _, _)
relatedLoop(allServices, n, owner) ==
    IF n > Len(allServices) THEN <<>>
    ELSE LET service == allServices[n]
             rest == relatedLoop(allServices, n + 1, owner)
             dependsOnOwner == someInternal(service.dependencies, owner.name)
             ownerDependsOn == someInternal(owner.dependencies, service.name)
         IN  IF service.name = owner.name THEN rest
             ELSE IF dependsOnOwner \/ ownerDependsOn THEN <<service>> \o rest
             ELSE rest

\* Returned(Some([owner, relatedServices])), owner being None or Some(row).
findServicesForResource(rows, db, id) ==
    IF db # "ok" THEN Raised("CatalogUnavailable")
    ELSE LET allServices == query_all(rows)
             found == ownerLoop(allServices, 1, id)
         IN  IF ~found.ok THEN found
             ELSE Returned(Some(
                    [owner |-> found.v,
                     relatedServices |->
                        IF IsSome(found.v)
                        THEN relatedLoop(allServices, 1, Get(found.v))
                        ELSE <<>>]))

----------------------------------------------------------------------------
(* Handler Registry *)

\* What a registered handler does when it is called: it resolves with a
\* ResourceInfo, resolves with null, or throws.
HandlerOutcomes == {"info", "foreign", "absent", "throws", "pending"}

\* The promise of a handler that neither resolves nor rejects: nothing is
\* given back, and the await on it does not resume.
NeverSettles == "pending"

HandlerInfo(h, id) == [id |-> id, status |-> "RUNNING", handled_by |-> h]

\* A handler is free in what it resolves with: a ResourceInfo that names
\* another resource and has the empty string for its status type-checks too.
ForeignInfo(h) == [id |-> <<"o", "t", "h", "e", "r">>, status |-> "", handled_by |-> h]

invokeHandler(h, id, outcome) ==
    CASE outcome = "info" -> Returned(Some(HandlerInfo(h, id)))
      [] outcome = "foreign" -> Returned(Some(ForeignInfo(h)))
      [] outcome = "absent" -> Returned(None)
      [] outcome = "throws" -> Raised("HandlerError")
      [] outcome = "pending" -> Raised(NeverSettles)

HasPattern(hs, pattern) == \E i \in 1..Len(hs) : hs[i].pattern = pattern

\* A register that leaves a pattern it already holds as it is.
register_keepsFirst(hs, pattern, handler) ==
    IF HasPattern(hs, pattern) THEN hs
    ELSE Append(hs, [pattern |-> pattern, handler |-> handler])

\* this.handlers.set(pattern, handler): a Map keeps the place of a key it
\* already holds and appends a new one.
register(hs, pattern, handler) ==
    IF HasPattern(hs, pattern)
    THEN [i \in 1..Len(hs) |->
            IF hs[i].pattern = pattern
            THEN [pattern |-> pattern, handler |-> handler]
            ELSE hs[i]]
    ELSE Append(hs, [pattern |-> pattern, handler |-> handler])

\* The result of registry.get with what it did on the way: the handlers it
\* invoked and whether it read the catalog.
GetResult(r, invoked, fellThrough) ==
    [ok |-> r.ok, v |-> r.v, error |-> r.error,
     invoked |-> invoked, fellThrough |-> fellThrough]

\* A get whose loop does not return at the first match: the handler of the
\* last registered pattern that matches is the one invoked.
RECURSIVE getLoop_last(_, _, _, _, _, _)
getLoop_last(hs, n, rows, db, id, outcome) ==
    IF n > Len(hs)
    THEN GetResult(lookupFromCatalog(rows, db, id), <<>>, TRUE)
    ELSE LET later == getLoop_last(hs, n + 1, rows, db, id, outcome) IN
         IF ~later.fellThrough THEN later
         ELSE IF matchPattern(hs[n].pattern, id)
              THEN GetResult(invokeHandler(hs[n].handler, id, outcome),
                             <<hs[n].handler>>, FALSE)
              ELSE later

RECURSIVE getLoop(_, _, _, _, _, _)
getLoop(hs, n, rows, db, id, outcome) ==
    IF n > Len(hs)
    THEN GetResult(lookupFromCatalog(rows, db, id), <<>>, TRUE)
    ELSE IF matchPatternThrows(hs[n].pattern)
         THEN GetResult(Raised("SyntaxError"), <<>>, FALSE)
    ELSE IF matchPattern(hs[n].pattern, id)
         THEN GetResult(invokeHandler(hs[n].handler, id, outcome),
                        <<hs[n].handler>>, FALSE)
    ELSE getLoop(hs, n + 1, rows, db, id, outcome)

\* A get that never asks a registered handler.
get_catalogOnly(hs, rows, db, id, outcome) ==
    GetResult(lookupFromCatalog(rows, db, id), <<>>, TRUE)

get(hs, rows, db, id, outcome) == getLoop(hs, 1, rows, db, id, outcome)

----------------------------------------------------------------------------
(* Live handler HTTP contract *)

\* How a GET of a declared handler URL ends.
EndpointOutcomes == {"ok", "non2xx", "network", "timeout", "unparseable"}

UrlPayload == [status |-> "PENDING", error |-> "DB timeout"]

\* typeInfo.handler_url.replace("${id}", resource_id): the first placeholder.
RECURSIVE substitute(_, _)
substitute(template, id) ==
    IF template = <<>> THEN <<>>
    ELSE IF Head(template) = "${id}" THEN <<id>> \o Tail(template)
    ELSE <<Head(template)>> \o substitute(Tail(template), id)

\* typeInfo?.handler_url: undefined for an object without the property.
handlerUrlOf(typeInfo) ==
    IF IsSome(typeInfo) /\ "handler_url" \in DOMAIN Get(typeInfo)
    THEN Get(typeInfo).handler_url
    ELSE None

\* The try/catch around fetch: [resourceInfo, handlerError] after it.
fetchHandlerUrl(endpoint, resource_id) ==
    CASE endpoint = "ok" ->
            [resourceInfo |-> Some(UrlPayload @@
                                   [id |-> resource_id,
                                    status |-> IF "status" \in DOMAIN UrlPayload
                                               THEN UrlPayload.status
                                               ELSE "unknown"]),
             handlerError |-> None]
      [] endpoint = "non2xx" ->
            [resourceInfo |-> None, handlerError |-> Some("Handler returned 503")]
      [] endpoint = "network" ->
            [resourceInfo |-> None, handlerError |-> Some("fetch failed")]
      [] endpoint = "timeout" ->
            [resourceInfo |-> None,
             handlerError |-> Some("The operation was aborted due to timeout")]
      [] endpoint = "unparseable" ->
            [resourceInfo |-> None,
             handlerError |-> Some("Unexpected token < in JSON at position 0")]

----------------------------------------------------------------------------
(* Catalog write paths (REST API server) *)

RemoveAt(rows, i) == SubSeq(rows, 1, i - 1) \o SubSeq(rows, i + 1, Len(rows))
InsertAt(rows, i, row) == SubSeq(rows, 1, i - 1) \o <<row>> \o SubSeq(rows, i, Len(rows))
IndexOf(rows, n) == CHOOSE i \in 1..Len(rows) : rows[i].name = n

\* COALESCE($n, column)
Coalesce(param, column) == IF IsSome(param) THEN Get(param) ELSE column

\* The UPDATE of upsertService.
UpdatedRow(row, config) ==
    Row(row.name,
        Coalesce(config.team, row.team),
        Coalesce(config.slack_channel, row.slack_channel),
        Coalesce(config.pager_alias, row.pager_alias),
        Coalesce(config.observability, row.observability),
        IF IsSome(config.resources) THEN config.resources ELSE row.resources,
        Coalesce(config.dependencies, row.dependencies))

\* The INSERT of upsertService: config.x || default.
InsertedRow(config) ==
    Row(config.name,
        Coalesce(config.team, "unknown"),
        Coalesce(config.slack_channel, <<"#", "unknown">>),
        Coalesce(config.pager_alias, <<>>),
        Coalesce(config.observability, EmptyObject),
        Some(Coalesce(config.resources, <<>>)),
        Coalesce(config.dependencies, <<>>))

\* upsertService(config).  The catalog's scans have no ORDER BY: a row that
\* is written may come back at any place of a later scan.
upsertService(config) ==
    IF config.name \in Names(catalog)
    THEN LET i == IndexOf(catalog, config.name)
             others == RemoveAt(catalog, i)
         IN  \E at \in 1..Len(catalog) :
                catalog' = InsertAt(others, at, UpdatedRow(catalog[i], config))
    ELSE \E at \in 1..(Len(catalog) + 1) :
            catalog' = InsertAt(catalog, at, InsertedRow(config))

\* POST /api/services: the INSERT names no resources column, which stays
\* NULL; a name already in the table violates the primary key.
createService(body) ==
    /\ body.name \notin Names(catalog)
    /\ \E at \in 1..(Len(catalog) + 1) :
          catalog' = InsertAt(catalog, at,
                              Row(body.name, body.team, body.slack_channel,
                                  body.pager_alias, body.observability,
                                  None, body.dependencies))

\* DELETE /api/services/:name
deleteService(name) ==
    /\ name \in Names(catalog)
    /\ catalog' = RemoveAt(catalog, IndexOf(catalog, name))

\* PATCH /api/services/:name.  Of the allowedFields the ones that are columns
\* of a Row; resources is not among them.
AllowedFields == {"team", "slack_channel", "pager_alias", "observability", "dependencies"}

\* The bodies PATCH /api/services/:name is called with.
PatchBodies ==
    { ("team" :> "platform"),
      ("resources" :> Some(<<Entry(PatAll, "anything", None)>>)),
      ("team" :> "platform") @@ ("resources" :> Some(<<Entry(PatAll, "anything", None)>>)) }

\* UPDATE services SET field = $n, ... WHERE name = $m
PatchedRow(row, updates) ==
    [f \in DOMAIN row |->
        IF f \in AllowedFields \cap DOMAIN updates THEN updates[f] ELSE row[f]]

\* An UPDATE that sets every field of the body, allowed or not.
patchService_anyField(name, updates) ==
    IF name \notin Names(catalog) THEN catalog' = catalog
    ELSE LET i == IndexOf(catalog, name) IN
         catalog' = [catalog EXCEPT ![i] =
                        [f \in DOMAIN @ |-> IF f \in DOMAIN updates
                                            THEN updates[f] ELSE @[f]]]

\* 404 without the row, 400 without an allowed field, else the UPDATE.
patchService(name, updates) ==
    IF name \notin Names(catalog) THEN catalog' = catalog
    ELSE IF AllowedFields \cap DOMAIN updates = {} THEN catalog' = catalog
    ELSE LET i == IndexOf(catalog, name)
             others == RemoveAt(catalog, i)
         IN  \E at \in 1..Len(catalog) :
                catalog' = InsertAt(others, at, PatchedRow(catalog[i], updates))

\* What a delivery to POST /webhooks/github can be: the signature check, the
\* event and ref, whether a commit modified or added service.yaml, whether a
\* commit removed it, and what fetchServiceYaml then gives.
\* fetchServiceYaml is called for a verified push to main that changed and
\* did not remove the file; it gives null when the fetch or the parse fails.
WebhookDeliveries ==
    { d \in [signature : BOOLEAN, event : {"push", "ping"},
              ref : {"refs/heads/main", "refs/heads/dev"},
              changed : BOOLEAN, removed : BOOLEAN,
              fetched : {None} \cup {Some(c) : c \in ServiceYamls}] :
         \/ d.fetched = None
         \/ /\ d.signature /\ d.event = "push" /\ d.ref = "refs/heads/main"
            /\ d.changed /\ ~d.removed }

\* The action field of the webhook's answer.
webhookAction(d) ==
    IF ~d.signature THEN "invalid_signature"
    ELSE IF d.event = "push" /\ d.ref = "refs/heads/main"
    THEN IF d.removed THEN "service_yaml_deleted"
         ELSE IF d.changed
              THEN IF IsSome(d.fetched) THEN "catalog_updated" ELSE "fetch_failed"
              ELSE "ignored"
    ELSE "ignored"

\* POST /webhooks/github
githubWebhook(d) ==
    IF webhookAction(d) = "catalog_updated" THEN upsertService(Get(d.fetched))
    ELSE catalog' = catalog

UpsertService == \E config \in ServiceYamls : upsertService(config)
CreateService == \E body \in CreateBodies : createService(body)
DeleteService == \E name \in ServiceNames : deleteService(name)

\* resourceRegistry.register(pattern, handler): the frame keeps the
\* arguments and the registry the call found; the call returns nothing.
Register ==
    /\ pc = "idle"
    /\ \E pattern \in RegistryPatterns, handler \in HandlerIds :
          /\ HasPattern(handlers, pattern) \/ Len(handlers) < MaxHandlers
          /\ handlers' = register(handlers, pattern, handler)
          /\ call' = [tool |-> "register", pattern |-> pattern,
                      handler |-> handler, before |-> handlers]
    /\ pc' = "done"
    /\ result' = [kind |-> "response", response |-> <<>>, error |-> "none"]

----------------------------------------------------------------------------
(* Tool calls: get_resource and find_resource_owner *)

NoCall ==
    [tool |-> "none", resource_id |-> None, include_context |-> FALSE,
     typeInfo |-> None, resourceInfo |-> None, handlerError |-> None,
     ownerName |-> None, endpoint |-> "none",
     fetched |-> <<>>, invoked |-> <<>>, reads |-> <<>>, steps |-> <<>>]

NoResult == [kind |-> "none", response |-> EmptyObject, error |-> "none"]

\* The caller has kept no response.
NoLast == [id |-> None, include_context |-> FALSE, status |-> "", fields |-> EmptyObject]
Response(obj) == [kind |-> "response", response |-> obj, error |-> "none"]
Failure(e) == [kind |-> "raised", response |-> EmptyObject, error |-> e]

\* The places <<n, k>> of the catalog entries (k-th entry of the n-th row)
\* whose pattern matches id, and the first of them in scan order.
Hits(rows, id) ==
    UNION { { <<n, k>> : k \in { j \in 1..Len(Get(rows[n].resources)) :
                                    matchPattern(Get(rows[n].resources)[j].pattern, id) } } :
            n \in { m \in 1..Len(rows) : IsSome(rows[m].resources) } }

NotAfter(h, g) == h[1] < g[1] \/ (h[1] = g[1] /\ h[2] <= g[2])

FirstHit(rows, id) == CHOOSE h \in Hits(rows, id) : \A g \in Hits(rows, id) : NotAfter(h, g)

FirstEntry(rows, id) == Get(rows[FirstHit(rows, id)[1]].resources)[FirstHit(rows, id)[2]]

\* Does the first catalog entry matching id declare a handler_url?
DeclaresUrl(rows, id) ==
    Hits(rows, id) # {} /\ IsSome(FirstEntry(rows, id).handler_url)

\* getResource up to its first await: the input is destructured, the
\* catalog is read by getResourceTypeInfo.  The endpoint a declared handler
\* URL names answers this call in one of the EndpointOutcomes.
GetResourceTypeInfo ==
    /\ pc = "idle"
    /\ \E resource_id \in ResourceIds :
       \E endpoint \in IF DeclaresUrl(catalog, resource_id)
                       THEN EndpointOutcomes ELSE {"none"} :
       \E include_context \in BOOLEAN, db \in DbOutcomes :
          LET info == getResourceTypeInfo(catalog, db, resource_id)
              frame == [NoCall EXCEPT !.tool = "get_resource",
                                      !.resource_id = resource_id,
                                      !.include_context = include_context,
                                      !.endpoint = endpoint,
                                      !.reads = <<db>>,
                                      !.steps = <<"getResourceTypeInfo">>]
          IN  IF info.ok
              THEN /\ call' = [frame EXCEPT !.typeInfo = info.v]
                   /\ pc' = "handler_url"
                   /\ result' = NoResult
              ELSE /\ call' = frame
                   /\ pc' = "done"
                   /\ result' = Failure(info.error)
    /\ UNCHANGED <<catalog, handlers>>

\* Lines 253-273: the GET of the handler URL, when typeInfo carries one.
TryHandlerUrl ==
    /\ pc = "handler_url"
    /\ IF IsSome(handlerUrlOf(call.typeInfo))
       THEN LET url == substitute(Get(handlerUrlOf(call.typeInfo)), call.resource_id)
                got == fetchHandlerUrl(call.endpoint, call.resource_id)
            IN  call' = [call EXCEPT !.resourceInfo = got.resourceInfo,
                                     !.handlerError = got.handlerError,
                                     !.fetched = Append(@, url),
                                     !.steps = Append(@, "fetch")]
       ELSE call' = call
    /\ pc' = "registry"
    /\ UNCHANGED <<catalog, handlers, result>>

\* A registry lookup that moves the first pattern matching the id to the
\* front of the registry, as a most-recently-used cache would.
RegistryGet_promoting ==
    /\ pc = "registry"
    /\ LET matching == {i \in 1..Len(handlers) :
                           matchPattern(handlers[i].pattern, call.resource_id)}
       IN  IF matching = {}
           THEN handlers' = handlers
           ELSE LET m == CHOOSE i \in matching : \A j \in matching : i <= j IN
                handlers' = <<handlers[m]>> \o SubSeq(handlers, 1, m - 1)
                                            \o SubSeq(handlers, m + 1, Len(handlers))
    /\ IF IsSome(call.resourceInfo)
       THEN /\ pc' = "respond"
            /\ UNCHANGED <<call, result>>
       ELSE \E db \in DbOutcomes, outcome \in HandlerOutcomes :
               LET got == get(handlers, catalog, db, call.resource_id, outcome)
                   frame == [call EXCEPT !.invoked = @ \o got.invoked,
                                         !.steps = @ \o <<"registry.get">>]
               IN  IF got.ok
                   THEN /\ call' = [frame EXCEPT !.resourceInfo = got.v]
                        /\ pc' = "respond"
                        /\ result' = result
                   ELSE IF got.error = NeverSettles
                   THEN /\ call' = frame
                        /\ pc' = "awaiting_handler"
                        /\ result' = result
                   ELSE /\ call' = frame
                        /\ pc' = "done"
                        /\ result' = Failure(got.error)
    /\ UNCHANGED catalog

\* Lines 276-278: the registered handler or the catalog lookup.
RegistryGet ==
    /\ pc = "registry"
    /\ IF IsSome(call.resourceInfo)
       THEN /\ pc' = "respond"
            /\ UNCHANGED <<call, result>>
       ELSE \E db \in DbOutcomes, outcome \in HandlerOutcomes :
               LET got == get(handlers, catalog, db, call.resource_id, outcome)
                   frame == [call EXCEPT
                                !.invoked = @ \o got.invoked,
                                !.reads = @ \o (IF got.fellThrough
                                                THEN <<db>>
                                                ELSE <<>>),
                                !.steps = @ \o <<"registry.get">>
                                            \o (IF got.fellThrough
                                                THEN <<"lookupFromCatalog">>
                                                ELSE <<>>)]
               IN  IF got.ok
                   THEN /\ call' = [frame EXCEPT !.resourceInfo = got.v]
                        /\ pc' = "respond"
                        /\ result' = result
                   ELSE IF got.error = NeverSettles
                   THEN /\ call' = frame
                        /\ pc' = "awaiting_handler"
                        /\ result' = result
                   ELSE /\ call' = frame
                        /\ pc' = "done"
                        /\ result' = Failure(got.error)
    /\ UNCHANGED <<catalog, handlers>>

NotFoundNote ==
    "No handler registered and resource ID doesn't match any catalog patterns. Either the resource doesn't exist or the owning service hasn't registered a handler."

\* Lines 285-293
typeInfoKeys(typeInfo, resource_id) ==
    IF IsSome(typeInfo)
    THEN LET t == Get(typeInfo) IN
         ("resource_type" :> t.type) @@
         ("resource_pattern" :> t.pattern) @@
         ("resource_description" :> t.description) @@
         ("owner_service" :> t.ownerService) @@
         (IF IsSome(handlerUrlOf(typeInfo))
          THEN ("handler_url" :> substitute(Get(handlerUrlOf(typeInfo)), resource_id))
          ELSE EmptyObject)
    ELSE EmptyObject

\* Lines 295-305
statusKeys(resourceInfo, handlerError) ==
    IF IsSome(resourceInfo)
    THEN ("status" :> Get(resourceInfo).status) @@
         ("resource_data" :> Get(resourceInfo))
    ELSE ("status" :> "not_found") @@
         (IF IsSome(handlerError)
          THEN ("handler_error" :> Get(handlerError))
          ELSE EmptyObject) @@
         ("note" :> NotFoundNote)

\* relatedServices.map((s) => ({ name: s.name, team: s.team, ... }))
relatedSummary(relatedServices) ==
    [i \in 1..Len(relatedServices) |->
        [name |-> relatedServices[i].name, team |-> relatedServices[i].team]]

\* owner.pagerduty_service || owner.pager_alias
pagerdutyService(owner) ==
    IF "pagerduty_service" \in DOMAIN owner /\ owner.pagerduty_service # <<>>
    THEN owner.pagerduty_service
    ELSE owner.pager_alias

\* Lines 311-330
contextKeys(found) ==
    (IF IsSome(found.owner)
     THEN ("owner_context" :>
              [service |-> Get(found.owner).name,
               team |-> Get(found.owner).team,
               slack_channel |-> Get(found.owner).slack_channel,
               pagerduty_service |-> pagerdutyService(Get(found.owner)),
               observability |-> Get(found.owner).observability,
               dependencies |-> Get(found.owner).dependencies])
     ELSE EmptyObject) @@
    (IF Len(found.relatedServices) > 0
     THEN ("related_services" :> relatedSummary(found.relatedServices))
     ELSE EmptyObject)

\* A guard that attaches the context whatever include_context says.
wantsContext_ignoresFlag(include_context, typeInfo) == IsSome(typeInfo)

\* if (include_context && typeInfo)
wantsContext(include_context, typeInfo) == include_context /\ IsSome(typeInfo)

\* A response assembly that takes owner_service from the resource info when
\* the live source names one.
BuildResponse_ownerFromData ==
    /\ pc = "respond"
    /\ LET named == IF IsSome(call.resourceInfo)
                       /\ "handled_by" \in DOMAIN Get(call.resourceInfo)
                    THEN ("owner_service" :> Get(call.resourceInfo).handled_by)
                    ELSE EmptyObject
           base == ("resource_id" :> call.resource_id) @@ named @@
                   typeInfoKeys(call.typeInfo, call.resource_id) @@
                   statusKeys(call.resourceInfo, call.handlerError)
       IN  IF wantsContext(call.include_context, call.typeInfo)
           THEN \E db \in DbOutcomes :
                   LET found == findServicesForResource(catalog, db, call.resource_id) IN
                   /\ call' = [call EXCEPT !.reads = Append(@, db),
                                            !.steps = Append(@, "findServicesForResource")]
                   /\ result' = IF found.ok
                                THEN Response(base @@ contextKeys(Get(found.v)))
                                ELSE Failure(found.error)
           ELSE /\ call' = call
                /\ result' = Response(base)
    /\ pc' = "done"
    /\ UNCHANGED <<catalog, handlers>>

\* Lines 280-333: the response is assembled; with include_context and a
\* typeInfo the catalog is read once more by findServicesForResource.
BuildResponse ==
    /\ pc = "respond"
    /\ LET base == ("resource_id" :> call.resource_id) @@
                   typeInfoKeys(call.typeInfo, call.resource_id) @@
                   statusKeys(call.resourceInfo, call.handlerError)
       IN  IF wantsContext(call.include_context, call.typeInfo)
           THEN \E db \in DbOutcomes :
                   LET found == findServicesForResource(catalog, db, call.resource_id) IN
                   /\ call' = [call EXCEPT !.reads = Append(@, db),
                                            !.steps = Append(@, "findServicesForResource")]
                   /\ result' = IF found.ok
                                THEN Response(base @@ contextKeys(Get(found.v)))
                                ELSE Failure(found.error)
           ELSE /\ call' = call
                /\ result' = Response(base)
    /\ pc' = "done"
    /\ UNCHANGED <<catalog, handlers>>

\* findResourceOwner up to the end of its first await, registry.findOwner;
\* without an owner it returns at once.
FindOwner ==
    /\ pc = "idle"
    /\ \E resource_id \in ResourceIds, db \in DbOutcomes :
          LET ownerName == findOwner(handlers, catalog, db, resource_id)
              frame == [NoCall EXCEPT !.tool = "find_resource_owner",
                                      !.resource_id = resource_id,
                                      !.reads = <<db>>,
                                      !.steps = <<"findOwner">>]
          IN  IF ~ownerName.ok
              THEN /\ call' = frame
                   /\ pc' = "done"
                   /\ result' = Failure(ownerName.error)
              ELSE IF ~IsSome(ownerName.v)
              THEN /\ call' = frame
                   /\ pc' = "done"
                   /\ result' = Response(
                          ("resource_id" :> resource_id) @@
                          ("owner" :> None) @@
                          ("error" :> "No service found that owns this resource pattern"))
              ELSE /\ call' = [frame EXCEPT !.ownerName = ownerName.v]
                   /\ pc' = "owner_row"
                   /\ result' = NoResult
    /\ UNCHANGED <<catalog, handlers>>

\* A record fetch that takes the row for granted: reading the name of a row
\* that is gone raises a TypeError.
FetchOwnerRow_assumesRow ==
    /\ pc = "owner_row"
    /\ \E db \in DbOutcomes :
          LET service == queryOne(query_by_name(catalog, Get(call.ownerName))) IN
          /\ call' = [call EXCEPT !.reads = Append(@, db),
                                   !.steps = Append(@, "queryOne")]
          /\ result' =
                IF db # "ok" THEN Failure("CatalogUnavailable")
                ELSE IF ~IsSome(service) THEN Failure("TypeError")
                ELSE Response(
                        ("resource_id" :> call.resource_id) @@
                        ("owner" :> Some([service |-> Get(service).name,
                                          team |-> Get(service).team,
                                          dependencies |->
                                             [i \in 1..Len(Get(service).dependencies) |->
                                                 Get(service).dependencies[i].name]])))
    /\ pc' = "done"
    /\ UNCHANGED <<catalog, handlers>>

\* Lines 363-386: the owner's row is fetched by name.
FetchOwnerRow ==
    /\ pc = "owner_row"
    /\ \E db \in DbOutcomes :
          LET service == queryOne(query_by_name(catalog, Get(call.ownerName))) IN
          /\ call' = [call EXCEPT !.reads = Append(@, db),
                                   !.steps = Append(@, "queryOne")]
          /\ result' =
                IF db # "ok" THEN Failure("CatalogUnavailable")
                ELSE IF ~IsSome(service)
                THEN Response(
                        ("resource_id" :> call.resource_id) @@
                        ("owner" :> call.ownerName) @@
                        ("error" :> "Service found in pattern match but not in catalog"))
                ELSE Response(
                        ("resource_id" :> call.resource_id) @@
                        ("owner" :> Some([service |-> Get(service).name,
                                          team |-> Get(service).team,
                                          dependencies |->
                                             [i \in 1..Len(Get(service).dependencies) |->
                                                 Get(service).dependencies[i].name]])))
    /\ pc' = "done"
    /\ UNCHANGED <<catalog, handlers>>

\* findServicesForResource is exported by the resource library: a caller
\* other than getResource gets { owner, relatedServices } as it is.
FindServicesForResource ==
    /\ pc = "idle"
    /\ \E resource_id \in ResourceIds, db \in DbOutcomes :
          LET found == findServicesForResource(catalog, db, resource_id) IN
          /\ call' = [NoCall EXCEPT !.tool = "findServicesForResource",
                                    !.resource_id = resource_id,
                                    !.reads = <<db>>,
                                    !.steps = <<"findServicesForResource">>]
          /\ result' = IF found.ok
                       THEN Response(("owner" :> Get(found.v).owner) @@
                                     ("relatedServices" :> Get(found.v).relatedServices))
                       ELSE Failure(found.error)
    /\ pc' = "done"
    /\ UNCHANGED <<catalog, handlers>>

\* The tool call hands its result to the caller and its frame is gone.
Return ==
    /\ pc = "done"
    /\ pc' = "idle"
    /\ call' = NoCall
    /\ result' = NoResult
    /\ UNCHANGED <<catalog, handlers>>

----------------------------------------------------------------------------
(* Specification: catalog writes and registrations happen between tool calls *)

Init ==
    /\ catalog = <<>>
    /\ handlers = <<>>
    /\ pc = "idle"
    /\ call = NoCall
    /\ result = NoResult
    /\ last = NoLast

Quiet == pc = "idle" /\ UNCHANGED <<pc, call, result>>

\* The caller's note is no part of the program: only the comparing caller
\* of TwiceSpec writes it.
Next ==
    \/ Quiet /\ UpsertService /\ UNCHANGED <<handlers, last>>
    \/ Quiet /\ CreateService /\ UNCHANGED <<handlers, last>>
    \/ Quiet /\ DeleteService /\ UNCHANGED <<handlers, last>>
    \/ Register /\ UNCHANGED <<catalog, last>>
    \/ GetResourceTypeInfo /\ UNCHANGED last
    \/ TryHandlerUrl /\ UNCHANGED last
    \/ RegistryGet /\ UNCHANGED last
    \/ BuildResponse /\ UNCHANGED last
    \/ FindOwner /\ UNCHANGED last
    \/ FetchOwnerRow /\ UNCHANGED last
    \/ FindServicesForResource /\ UNCHANGED last
    \/ Return /\ UNCHANGED last

Spec == Init /\ [][Next]_vars

----------------------------------------------------------------------------
(* Properties of getResource *)

Range(s) == {s[i] : i \in 1..Len(s)}

\* A get_resource call that has returned or raised and is not yet handed back.
GetResourceDone == pc = "done" /\ call.tool = "get_resource"

\* One of the call's catalog reads was rejected by the backing store.
CatalogReadFailed == result.kind = "raised" /\ result.error = "CatalogUnavailable"

EndpointFailures == EndpointOutcomes \ {"ok"}

\* The call invoked a registered handler and got no ResourceInfo from it:
\* the handler threw or resolved with null.
HandlerFailed == call.invoked # <<>> /\ ~IsSome(call.resourceInfo)

\* C1: a getResource call whose id matches no catalog pattern, or whose
\* declared handler URL answers with a failure, ends in a response object and
\* never raises, provided none of its catalog reads failed.
C1_NeverRaises ==
    (/\ GetResourceDone
     /\ ~CatalogReadFailed
     /\ \/ Hits(catalog, call.resource_id) = {}
        \/ /\ DeclaresUrl(catalog, call.resource_id)
           /\ call.endpoint \in EndpointFailures)
    => result.kind = "response"

\* C2: when the registered handler matching the id throws or returns absent,
\* getResource does not raise: the registry has gone on to the catalog lookup
\* and the response carries catalog-only data or status "not_found".
C2_HandlerFailureFallsThrough ==
    (GetResourceDone /\ HandlerFailed /\ ~CatalogReadFailed)
    => /\ result.kind = "response"
       /\ "lookupFromCatalog" \in Range(call.steps)
       /\ \/ result.response.status = "not_found"
          \/ /\ "resource_data" \in DOMAIN result.response
             /\ result.response.resource_data.note = CatalogOnlyNote

\* The case of C3: the id matches a catalog pattern, the first matching entry
\* declares no handler URL and no registered pattern matches the id.
CatalogOnlyCase ==
    /\ GetResourceDone
    /\ ~CatalogReadFailed
    /\ Hits(catalog, call.resource_id) # {}
    /\ ~DeclaresUrl(catalog, call.resource_id)
    /\ \A i \in 1..Len(handlers) : ~matchPattern(handlers[i].pattern, call.resource_id)

OwningService(rows, id) == rows[FirstHit(rows, id)[1]]

C4_OneGetBeforeRegistry ==
    (/\ call.tool = "get_resource"
     /\ DeclaresUrl(catalog, call.resource_id)
     /\ \/ pc \in {"registry", "respond"}
        \/ pc = "done" /\ result.kind = "response")
    => call.fetched =
          <<substitute(Get(FirstEntry(catalog, call.resource_id).handler_url),
                       call.resource_id)>>

\* C5: when the declared handler URL answers with a failure, the failure is
\* recorded as handlerError, the lookup goes on, and the handler registry is
\* queried next.
C5_FailureRecordedThenRegistry ==
    (/\ call.tool = "get_resource"
     /\ call.endpoint \in EndpointFailures
     /\ pc \in {"registry", "respond"})
    => /\ IsSome(call.handlerError)
       /\ pc = "respond" => "registry.get" \in Range(call.steps)

\* The places of the registered patterns that match id, in registration order.
MatchingHandlers(hs, id) == {i \in 1..Len(hs) : matchPattern(hs[i].pattern, id)}

FirstMatchingHandler(hs, id) ==
    hs[CHOOSE i \in MatchingHandlers(hs, id) :
          \A j \in MatchingHandlers(hs, id) : i <= j]

Count(seq, x) == Cardinality({i \in 1..Len(seq) : seq[i] = x})

\* What handler h may have resolved with for id.
InfosOf(h, id) == {HandlerInfo(h, id), ForeignInfo(h)}

\* C6 as stated: a getResource call invokes the handler of every registered
\* pattern that matches its id exactly once, and a non-absent result of the
\* handler supplies the response's status and resource_data.
C6_EveryMatchingHandlerInvoked ==
    (GetResourceDone /\ ~CatalogReadFailed)
    => \A i \in MatchingHandlers(handlers, call.resource_id) :
          LET h == handlers[i].handler IN
          /\ Count(call.invoked, h) = 1
          /\ IsSome(call.resourceInfo)
             => /\ result.kind = "response"
                /\ result.response.resource_data \in InfosOf(h, call.resource_id)

\* C6 as the code has it: a getResource call none of whose catalog reads
\* fails invokes exactly once the handler of the first registered pattern, in
\* registration order, that matches its id, and no other handler; a
\* non-absent result of that handler supplies the response's status and
\* resource_data, and the catalog-only lookup is not made.
C6_FirstMatchingHandlerInvoked ==
    (/\ GetResourceDone
     /\ ~CatalogReadFailed
     /\ MatchingHandlers(handlers, call.resource_id) # {})
    => LET h == FirstMatchingHandler(handlers, call.resource_id).handler IN
       /\ call.invoked = <<h>>
       /\ IsSome(call.resourceInfo)
          => /\ result.kind = "response"
             /\ result.response.resource_data \in InfosOf(h, call.resource_id)
             /\ result.response.status = result.response.resource_data.status
             /\ "lookupFromCatalog" \notin Range(call.steps)

\* Two registered patterns with different handlers match the id, the catalog
\* has an entry for it too, and the first handler has answered.
C6_Witness ==
    /\ GetResourceDone
    /\ result.kind = "response"
    /\ IsSome(call.resourceInfo)
    /\ Cardinality({handlers[i].handler :
                       i \in MatchingHandlers(handlers, call.resource_id)}) = 2
    /\ Hits(catalog, call.resource_id) # {}

\* C7: the response of a getResource call with include_context = false has
\* neither an owner_context key nor a related_services key.
C7_NoContextKeys ==
    (GetResourceDone /\ ~call.include_context /\ result.kind = "response")
    => {"owner_context", "related_services"} \cap DOMAIN result.response = {}

\* A call without include_context has answered for an id the catalog knows,
\* in a catalog where the owner has a related service.
C7_Witness ==
    /\ GetResourceDone
    /\ ~call.include_context
    /\ result.kind = "response"
    /\ IsSome(call.typeInfo)
    /\ LET found == findServicesForResource(catalog, "ok", call.resource_id) IN
       Len(Get(found.v).relatedServices) > 0

\* C8: whenever registry.findOwner names an owner for the id of a getResource
\* response, the response's owner_service and owner_context.service, where
\* present, are that name.
C8_FindOwnerAgrees ==
    (GetResourceDone /\ result.kind = "response")
    => LET ownerName == findOwner(handlers, catalog, "ok", call.resource_id) IN
       (ownerName.ok /\ IsSome(ownerName.v))
       => /\ "owner_service" \in DOMAIN result.response
             => result.response.owner_service = Get(ownerName.v)
          /\ "owner_context" \in DOMAIN result.response
             => result.response.owner_context.service = Get(ownerName.v)

\* A response carries both owner fields for an id that two services claim,
\* with a registered pattern matching the id.
C8_Witness ==
    /\ GetResourceDone
    /\ result.kind = "response"
    /\ {"owner_service", "owner_context"} \subseteq DOMAIN result.response
    /\ Cardinality({h[1] : h \in Hits(catalog, call.resource_id)}) > 1
    /\ MatchingHandlers(handlers, call.resource_id) # {}

----------------------------------------------------------------------------
(* Properties of the ownership resolver *)

ResolverDone == pc = "done" /\ call.tool = "findServicesForResource"

\* C9: the resolver, when its catalog read succeeds, returns without raising;
\* its owner is the service holding the first matching pattern in catalog
\* order, and when no pattern matches the owner is absent and related empty.
C9_FirstMatchOwns ==
    (ResolverDone /\ ~CatalogReadFailed)
    => /\ result.kind = "response"
       /\ IF Hits(catalog, call.resource_id) = {}
          THEN /\ result.response.owner = None
               /\ result.response.relatedServices = <<>>
          ELSE result.response.owner =
                  Some(OwningService(catalog, call.resource_id))

\* The resolver has answered in a catalog where two services both declare
\* the pattern * .
C9_Witness ==
    /\ ResolverDone
    /\ result.kind = "response"
    /\ Cardinality({h[1] : h \in { g \in Hits(catalog, call.resource_id) :
                       Get(catalog[g[1]].resources)[g[2]].pattern = PatAll }}) = 2

\* Service s declares an internal dependency that names n.
DeclaresInternal(s, n) ==
    \E d \in Range(s.dependencies) : d.type = "internal" /\ d.name = n

\* The place of the row named n in the catalog.
PlaceOf(rows, n) == CHOOSE i \in 1..Len(rows) : rows[i].name = n

\* C10: when the resolver finds an owner, a service other than the owner is
\* in related exactly if it declares an internal dependency naming the owner
\* or the owner declares one naming it; related has no owner, no service
\* twice, and is in catalog order.
C10_RelatedByInternalEdge ==
    (ResolverDone /\ result.kind = "response" /\ IsSome(result.response.owner))
    => LET owner == Get(result.response.owner)
           related == result.response.relatedServices
       IN  /\ \A n \in 1..Len(catalog) :
                 catalog[n].name # owner.name
                 => (catalog[n] \in Range(related)
                     <=> \/ DeclaresInternal(catalog[n], owner.name)
                         \/ DeclaresInternal(owner, catalog[n].name))
           /\ \A i \in 1..Len(related) :
                 /\ related[i].name # owner.name
                 /\ related[i] \in Range(catalog)
           /\ \A i, j \in 1..Len(related) :
                 i < j => PlaceOf(catalog, related[i].name) <
                          PlaceOf(catalog, related[j].name)

\* The resolver has found an owner with two related services.
C10_Witness ==
    /\ ResolverDone
    /\ result.kind = "response"
    /\ IsSome(result.response.owner)
    /\ Len(result.response.relatedServices) = 2

----------------------------------------------------------------------------
(* Properties of findOwner and of catalog failures *)

\* registry.findOwner has settled and findResourceOwner has not yet gone on
\* to its second read.
FindOwnerSettled ==
    /\ call.tool = "find_resource_owner"
    /\ call.steps = <<"findOwner">>

\* C11: for a fixed catalog and id registry.findOwner gives the result it
\* gives with no handler registered, the service of the first matching
\* catalog pattern or null, whatever handlers are registered, and the
\* handlers never make it raise.
C11_FindOwnerIgnoresHandlers ==
    FindOwnerSettled
    => /\ result.kind = "raised" => CatalogReadFailed
       /\ result.kind # "raised"
          => /\ Returned(call.ownerName) =
                   findOwner(<<>>, catalog, "ok", call.resource_id)
             /\ call.ownerName =
                   IF Hits(catalog, call.resource_id) = {}
                   THEN None
                   ELSE Some(OwningService(catalog, call.resource_id).name)

\* findOwner has named an owner with one registered pattern that matches
\* the id and one that does not.
C11_Witness ==
    /\ FindOwnerSettled
    /\ IsSome(call.ownerName)
    /\ MatchingHandlers(handlers, call.resource_id) # {}
    /\ MatchingHandlers(handlers, call.resource_id) # DOMAIN handlers

\* C12: a getResource or findResourceOwner call one of whose catalog reads
\* was rejected by an unreachable store has ended, and ended by raising that
\* failure: it has returned no response, so none with status "not_found" or
\* owner null.
C12_CatalogFailurePropagates ==
    (/\ call.tool \in {"get_resource", "find_resource_owner"}
     /\ "unreachable" \in Range(call.reads))
    => /\ pc = "done"
       /\ result.kind = "raised"
       /\ result.error = "CatalogUnavailable"
       /\ DOMAIN result.response = {}

\* A getResource call whose first two catalog reads succeeded has failed on
\* the third, the one of findServicesForResource.
C12_Witness ==
    /\ pc = "done"
    /\ call.tool = "get_resource"
    /\ call.reads = <<"ok", "ok", "unreachable">>

----------------------------------------------------------------------------
(* The pattern matcher on its own: matchPattern applied to every pattern   *)
(* and id of up to MaxLen characters.                                      *)

MaxLen == 3

\* Characters a pattern is made of: plain ones, the wildcard and characters
\* that have a meaning in a regular expression.
PlainChars == {"a", "b"}
PatternChars == PlainChars \cup {".", "(", ")", "*"}
IdChars == PlainChars \cup {"."}

Strings(chars, n) == UNION { [1..k -> chars] : k \in 0..n }

\* matchPattern(pattern, id) is called.
CallMatchPattern ==
    /\ pc = "idle"
    /\ \E pattern \in Strings(PatternChars, MaxLen), id \in Strings(IdChars, MaxLen) :
          call' = [tool |-> "matchPattern", pattern |-> pattern, id |-> id]
    /\ pc' = "matching"
    /\ UNCHANGED <<catalog, handlers, result>>

\* It returns true or false, or raises what new RegExp raises.
MatchPattern ==
    /\ pc = "matching"
    /\ result' = IF matchPatternThrows(call.pattern)
                 THEN Failure("SyntaxError")
                 ELSE Response("matches" :> matchPattern(call.pattern, call.id))
    /\ pc' = "done"
    /\ UNCHANGED <<catalog, handlers, call>>

MatcherNext ==
    \/ CallMatchPattern /\ UNCHANGED last
    \/ MatchPattern /\ UNCHANGED last
    \/ Return /\ UNCHANGED last

MatcherSpec == Init /\ [][MatcherNext]_vars

MatchPatternDone == pc = "done" /\ call.tool = "matchPattern"

IsPrefix(prefix, s) ==
    Len(prefix) <= Len(s) /\ SubSeq(s, 1, Len(prefix)) = prefix

\* C13: for a pattern without "*", matchPattern, where it returns, returns
\* true exactly if the pattern equals the id.
C13_LiteralWithoutWildcard ==
    (/\ MatchPatternDone
     /\ "*" \notin Range(call.pattern)
     /\ result.kind = "response")
    => (result.response.matches <=> call.pattern = call.id)

StoredPattern(pattern) ==
    <<InsertedRow(YamlConfig("order-service",
                             Some(<<Entry(pattern, "order", None)>>), Some(<<>>)))>>

\* C15: matchPattern returns true or false for every pattern and id and
\* never raises, and with the pattern stored in the catalog or the registry
\* neither findOwner nor registry.get nor getResourceTypeInfo raises.
C15_MatchPatternTotal ==
    MatchPatternDone
    => /\ result.kind = "response"
       /\ result.response.matches \in BOOLEAN
       /\ findOwner(<<>>, StoredPattern(call.pattern), "ok", call.id).ok
       /\ getResourceTypeInfo(StoredPattern(call.pattern), "ok", call.id).ok
       /\ get(<<[pattern |-> call.pattern, handler |-> "h1"]>>, <<>>, "ok",
              call.id, "info").ok

----------------------------------------------------------------------------
(* Properties of the handler registry *)

\* The last operation was a register of a pattern the registry already held.
Reregistered ==
    /\ pc = "done"
    /\ call.tool = "register"
    /\ HasPattern(call.before, call.pattern)

\* The entries of the registry other than the one of the pattern are where
\* and what they were, and the pattern has one entry, with the new handler.
OverwrittenInPlace ==
    /\ Len(handlers) = Len(call.before)
    /\ \A i \in 1..Len(handlers) :
          IF call.before[i].pattern = call.pattern
          THEN handlers[i] = [pattern |-> call.pattern, handler |-> call.handler]
          ELSE handlers[i] = call.before[i]
    /\ Cardinality({i \in 1..Len(handlers) : handlers[i].pattern = call.pattern}) = 1

\* C16 as stated: after register(P, h2) on a registry that holds P, P has
\* exactly one entry, with handler h2, the other entries are unchanged, and a
\* get for any id matching P invokes h2 and nothing else.
C16_OverwriteThenEveryGet ==
    Reregistered
    => /\ OverwrittenInPlace
       /\ \A id \in ResourceIds, outcome \in HandlerOutcomes :
             matchPattern(call.pattern, id)
             => get(handlers, catalog, "ok", id, outcome).invoked = <<call.handler>>

\* C16 as the code has it: after register(P, h2) on a registry that holds P,
\* P has exactly one entry, with handler h2, the other entries are unchanged,
\* and a get for an id whose first matching registered pattern is P invokes
\* h2 and nothing else.
C16_OverwriteThenFirstMatchGet ==
    Reregistered
    => /\ OverwrittenInPlace
       /\ \A id \in ResourceIds, outcome \in HandlerOutcomes :
             (/\ matchPattern(call.pattern, id)
              /\ FirstMatchingHandler(handlers, id).pattern = call.pattern)
             => get(handlers, catalog, "ok", id, outcome).invoked = <<call.handler>>

\* A pattern that matches an id has got a new handler in place of a
\* different one, in a registry that holds another pattern too.
C16_Witness ==
    /\ Reregistered
    /\ Len(call.before) = 2
    /\ \E i \in 1..Len(call.before) :
          /\ call.before[i].pattern = call.pattern
          /\ call.before[i].handler # call.handler
    /\ \E id \in ResourceIds :
          /\ matchPattern(call.pattern, id)
          /\ FirstMatchingHandler(handlers, id).pattern = call.pattern

\* The call has queried the registry for an id that several registered
\* patterns match.
SeveralPatternsMatch ==
    /\ call.tool = "get_resource"
    /\ "registry.get" \in Range(call.steps)
    /\ Cardinality(MatchingHandlers(handlers, call.resource_id)) > 1

\* C17: when several registered patterns match the id, registry.get has
\* invoked the handler of the first of them in registration order and no
\* other, has not read the catalog, and has given back what that handler
\* gave: its ResourceInfo, null, or its exception.
C17_FirstRegisteredWins ==
    SeveralPatternsMatch
    => LET h == FirstMatchingHandler(handlers, call.resource_id).handler IN
       /\ call.invoked = <<h>>
       /\ "lookupFromCatalog" \notin Range(call.steps)
       /\ call.resourceInfo \in {None} \cup {Some(info) : info \in InfosOf(h, call.resource_id)}
       /\ result.kind = "raised"
          => result.error \in {"HandlerError", "CatalogUnavailable"}

\* Two patterns with different handlers match, and the first registered
\* handler's ResourceInfo is what registry.get returned.
C17_Witness ==
    /\ SeveralPatternsMatch
    /\ pc = "respond"
    /\ handlers[1].handler # handlers[2].handler
    /\ call.resourceInfo = Some(HandlerInfo(handlers[1].handler, call.resource_id))

----------------------------------------------------------------------------
(* Properties of the response *)

NotFoundResponse ==
    /\ GetResourceDone
    /\ result.kind = "response"
    /\ result.response.status = "not_found"

\* The note of a "not_found" response for an id no catalog pattern matches.
TrulyUnknownNote == statusKeys(None, None).note

\* C18: a response with status "not_found" carries the handlerError the
\* handler URL call left, if it left one, and a note; where the id has an
\* owner in the catalog the note is not the one given for an id that matches
\* no catalog pattern.
C18_NotFoundNoteTellsCases ==
    NotFoundResponse
    => /\ IsSome(call.handlerError)
          => /\ "handler_error" \in DOMAIN result.response
             /\ result.response.handler_error = Get(call.handlerError)
       /\ "note" \in DOMAIN result.response
       /\ Hits(catalog, call.resource_id) # {}
          => result.response.note # TrulyUnknownNote

C20_UrlPayloadSurfaced ==
    (/\ GetResourceDone
     /\ result.kind = "response"
     /\ DeclaresUrl(catalog, call.resource_id)
     /\ call.endpoint = "ok")
    => LET r == result.response IN
       /\ r.status = UrlPayload.status
       /\ "resource_data" \in DOMAIN r
       /\ \A k \in DOMAIN UrlPayload :
             /\ k \in DOMAIN r.resource_data
             /\ r.resource_data[k] = UrlPayload[k]

----------------------------------------------------------------------------
(* Properties of findResourceOwner *)

FindResourceOwnerDone == pc = "done" /\ call.tool = "find_resource_owner"

\* C22: a findResourceOwner call none of whose catalog reads failed does not
\* raise; for an id that matches no catalog pattern its result has owner null
\* and a non-empty error string, and for an id that matches, owner.service is
\* the owning service and owner.team that service's team.
C22_OwnerOrExplainedNull ==
    (FindResourceOwnerDone /\ ~CatalogReadFailed)
    => /\ result.kind = "response"
       /\ IF Hits(catalog, call.resource_id) = {}
          THEN /\ result.response.owner = None
               /\ "error" \in DOMAIN result.response
               /\ result.response.error # ""
          ELSE LET o == OwningService(catalog, call.resource_id) IN
               /\ IsSome(result.response.owner)
               /\ Get(result.response.owner).service = o.name
               /\ Get(result.response.owner).team = o.team

\* findResourceOwner has returned an owner for an id that two services
\* claim, the owner coming after another row in the scan.
C22_Witness ==
    /\ FindResourceOwnerDone
    /\ result.kind = "response"
    /\ IsSome(result.response.owner)
    /\ Cardinality({h[1] : h \in Hits(catalog, call.resource_id)}) > 1
    /\ FirstHit(catalog, call.resource_id)[1] > 1

\* findResourceOwner has returned a null owner from a catalog that holds
\* patterns, none of them matching the id.
FindResourceOwnerNull ==
    /\ FindResourceOwnerDone
    /\ result.kind = "response"
    /\ result.response.owner = None
    /\ \E n \in 1..Len(catalog) :
          IsSome(catalog[n].resources) /\ Get(catalog[n].resources) # <<>>

----------------------------------------------------------------------------
(* Frame of the lookups *)

LookupTools == {"get_resource", "find_resource_owner"}

\* C23: no step of a getResource or findResourceOwner call, whatever its
\* outcome, changes the registered handlers, their order, or any catalog record.
C23_LookupMutatesNothing ==
    [][(call.tool \in LookupTools \/ call'.tool \in LookupTools)
       => /\ handlers' = handlers
          /\ catalog' = catalog]_vars

\* A getResource call has ended with the error of a registered handler, the
\* second of two registered patterns being the one that matched, over a
\* catalog of several records.
C23_Witness ==
    /\ GetResourceDone
    /\ result.kind = "raised"
    /\ result.error = "HandlerError"
    /\ Len(handlers) = 2
    /\ MatchingHandlers(handlers, call.resource_id) = {2}
    /\ Len(catalog) > 1

----------------------------------------------------------------------------
(* Properties of the registry's catalog fallback *)

\* registry.get has returned to getResource without raising.
RegistryAnswered ==
    /\ call.tool = "get_resource"
    /\ "registry.get" \in Range(call.steps)
    /\ result.kind # "raised"

NoRegisteredMatch == MatchingHandlers(handlers, call.resource_id) = {}

NotFoundByAbsentHandler ==
    /\ GetResourceDone
    /\ result.kind = "response"
    /\ result.response.status = "not_found"
    /\ Hits(catalog, call.resource_id) # {}

----------------------------------------------------------------------------
(* Properties of the response's status fields *)

\* The endpoint of the handler URL that the first matching entry declares
\* answers this call with a failure.
HandlerUrlFails ==
    /\ DeclaresUrl(catalog, call.resource_id)
    /\ call.endpoint \in EndpointFailures

\* C28: a getResource response contains the key handler_error exactly if the
\* call of the declared handler URL failed during the lookup, also when a
\* registered handler or the catalog-only info supplied the resource info.
C28_HandlerErrorIffUrlFailed ==
    (GetResourceDone /\ result.kind = "response")
    => ("handler_error" \in DOMAIN result.response <=> HandlerUrlFails)

\* C29: in every getResource response that carries resource_data,
\* resource_data.id is the requested resource_id, and the top-level status
\* equals resource_data.status and is a non-empty string, whatever the live
\* source returned.
C29_ResourceDataEchoesRequest ==
    (/\ GetResourceDone
     /\ result.kind = "response"
     /\ "resource_data" \in DOMAIN result.response)
    => /\ result.response.resource_data.id = call.resource_id
       /\ result.response.status = result.response.resource_data.status
       /\ result.response.status # ""

----------------------------------------------------------------------------
(* Specification: a caller that compares getResource responses *)

OwnershipKeys ==
    {"owner_service", "resource_type", "resource_pattern", "owner_context",
     "related_services"}

OwnershipFields(response) ==
    [k \in DOMAIN response \cap OwnershipKeys |-> response[k]]

\* The caller takes the result; of a getResource response it keeps the
\* arguments, the status and the ownership and context fields, until the
\* catalog or the registry changes.
ReturnKept ==
    /\ Return
    /\ last' = IF /\ call.tool = "get_resource"
                  /\ result.kind = "response"
                  /\ last = NoLast
               THEN [id |-> Some(call.resource_id),
                     include_context |-> call.include_context,
                     status |-> result.response.status,
                     fields |-> OwnershipFields(result.response)]
               ELSE last

\* The service.yaml files pushed while the caller is comparing.
TwiceYamls ==
    { c \in ServiceYamls :
         /\ IsSome(c.resources)
         /\ Len(Get(c.resources)) = 2 \/ IsSome(Get(c.resources)[1].handler_url) }

UpsertTwice == \E config \in TwiceYamls : upsertService(config)

TwiceNext ==
    \/ Quiet /\ UpsertTwice /\ UNCHANGED handlers /\ last' = NoLast
    \/ Quiet /\ CreateService /\ UNCHANGED handlers /\ last' = NoLast
    \/ Quiet /\ DeleteService /\ UNCHANGED handlers /\ last' = NoLast
    \/ Register /\ UNCHANGED catalog /\ last' = NoLast
    \/ GetResourceTypeInfo /\ UNCHANGED last
    \/ TryHandlerUrl /\ UNCHANGED last
    \/ RegistryGet /\ UNCHANGED last
    \/ BuildResponse /\ UNCHANGED last
    \/ ReturnKept

TwiceSpec == Init /\ [][TwiceNext]_vars

\* A getResource response to the arguments of the response the caller kept,
\* with no catalog or registry change since.
SecondResponse ==
    /\ GetResourceDone
    /\ result.kind = "response"
    /\ last.id = Some(call.resource_id)
    /\ last.include_context = call.include_context

\* C21: two getResource calls with the same arguments, with no catalog or
\* registry change between or during them, return the same owner_service,
\* resource_type, resource_pattern, owner_context and related_services,
\* whatever the live-status sources return to either call.
C21_SameOwnershipTwice ==
    SecondResponse => OwnershipFields(result.response) = last.fields

\* The second of two such calls got another status from the live source than
\* the first, and both carry an owner_context and related_services.
C21_Witness ==
    /\ SecondResponse
    /\ result.response.status # last.status
    /\ {"owner_context", "related_services"} \subseteq DOMAIN last.fields
    /\ call.invoked # <<>>

----------------------------------------------------------------------------
(* Specification: the requests that write the catalog *)

\* The request the API server handled last: the record it names and whether
\* it carries resources for it.
Request(tool, name, resources) == [tool |-> tool, name |-> name, resources |-> resources]

ApiUpsert ==
    \E config \in ServiceYamls :
       /\ upsertService(config)
       /\ call' = Request("upsertService", config.name, IsSome(config.resources))

ApiCreate ==
    \E body \in CreateBodies :
       /\ createService(body)
       /\ call' = Request("POST", body.name, FALSE)

ApiDelete ==
    \E name \in ServiceNames :
       /\ deleteService(name)
       /\ call' = Request("DELETE", name, FALSE)

ApiPatch ==
    \E name \in ServiceNames, updates \in PatchBodies :
       /\ patchService(name, updates)
       /\ call' = Request("PATCH", name, "resources" \in DOMAIN updates)

ApiWebhook ==
    \E d \in WebhookDeliveries :
       /\ githubWebhook(d)
       /\ call' = IF webhookAction(d) = "catalog_updated"
                  THEN Request("upsertService", Get(d.fetched).name,
                               IsSome(Get(d.fetched).resources))
                  ELSE Request(webhookAction(d), "none", FALSE)

WriteNext ==
    \/ ApiUpsert /\ UNCHANGED <<handlers, pc, result, last>>
    \/ ApiCreate /\ UNCHANGED <<handlers, pc, result, last>>
    \/ ApiDelete /\ UNCHANGED <<handlers, pc, result, last>>
    \/ ApiPatch /\ UNCHANGED <<handlers, pc, result, last>>
    \/ ApiWebhook /\ UNCHANGED <<handlers, pc, result, last>>

WriteSpec == Init /\ [][WriteNext]_vars

PatternsOf(rows, n) == rows[IndexOf(rows, n)].resources

\* C25: the resource patterns of a stored service change only in a step that
\* upserts that service with resources in its config, and the record
\* disappears only in a step that deletes that service; so an upsert without
\* resources, an upsert of another service, a PATCH, an ignored webhook
\* event and a push that removes service.yaml leave the patterns as they
\* are, and no write changes the name of a record.
C25_PatternsChangeByOwnUpsert ==
    [][\A n \in Names(catalog) :
          /\ n \notin Names(catalog')
             => call' = Request("DELETE", n, FALSE)
          /\ (n \in Names(catalog') /\ PatternsOf(catalog', n) # PatternsOf(catalog, n))
             => call' = Request("upsertService", n, TRUE)]_vars

\* An upsert without resources has been taken for a service whose record
\* holds patterns, in a catalog of three records.
C25_Witness ==
    /\ call = Request("upsertService", "auth-service", FALSE)
    /\ Len(catalog) = 3
    /\ IsSome(PatternsOf(catalog, "auth-service"))
    /\ Get(PatternsOf(catalog, "auth-service")) # <<>>

----------------------------------------------------------------------------
(* Progress of a getResource call *)

\* The places of a getResource call from which the event loop takes it on:
\* the promise it awaited has settled and TryHandlerUrl, RegistryGet or
\* BuildResponse is its continuation.
Runnable == pc \in {"handler_url", "registry", "respond"}

\* The steps a getResource call has taken are in order and taken once:
\* pattern resolution, the live-status attempt, response assembly.
OrderedSteps ==
    /\ call.steps[1] = "getResourceTypeInfo"
    /\ Len(call.steps) >= 2 => call.steps[2] \in {"fetch", "registry.get"}
    /\ \A step \in Range(call.steps) : Count(call.steps, step) = 1
    /\ "findServicesForResource" \in Range(call.steps)
       => call.steps[Len(call.steps)] = "findServicesForResource"

\* C24: every getResource call reaches DONE after passing once, in order,
\* through pattern resolution, the live-status attempt and response assembly:
\* as long as it is not done its continuation is runnable, whatever a
\* live-status source does, so that no call stays pending forever.
C24_LookupReachesDone ==
    call.tool = "get_resource"
    => /\ OrderedSteps
       /\ pc # "done" => Runnable

\* The steps of every getResource call are in order and taken once.
StepsInOrder == call.tool = "get_resource" => OrderedSteps

----------------------------------------------------------------------------
(* Specification: catalog writes arrive while a tool call is under way *)

\* The API server is another process: its writes fall between any two
\* catalog reads of a call.
ConcurrentNext ==
    \/ UpsertService /\ UNCHANGED <<handlers, pc, call, result, last>>
    \/ CreateService /\ UNCHANGED <<handlers, pc, call, result, last>>
    \/ DeleteService /\ UNCHANGED <<handlers, pc, call, result, last>>
    \/ GetResourceTypeInfo /\ UNCHANGED last
    \/ TryHandlerUrl /\ UNCHANGED last
    \/ RegistryGet /\ UNCHANGED last
    \/ BuildResponse /\ UNCHANGED last
    \/ FindOwner /\ UNCHANGED last
    \/ FetchOwnerRow /\ UNCHANGED last
    \/ Return /\ UNCHANGED last

ConcurrentSpec == Init /\ [][ConcurrentNext]_vars

\* C26: within one getResource response owner_context.service, when present,
\* equals owner_service, so that related_services, which the resolver
\* computes for the owner of owner_context, are those of owner_service, also
\* when catalog upserts and deletes fall between the catalog reads of the call.
C26_OneOwnerPerResponse ==
    (/\ GetResourceDone
     /\ result.kind = "response"
     /\ "owner_context" \in DOMAIN result.response)
    => result.response.owner_context.service = result.response.owner_service

MissingRowError == "Service found in pattern match but not in catalog"

\* C30: findResourceOwner reads the catalog twice; whatever deletes and
\* upserts fall between the two reads it returns without raising when neither
\* read fails, and its result is owner null, or an owner object whose service
\* is the name the scan found, or that bare name with the error "Service
\* found in pattern match but not in catalog".
C30_OwnerFetchSurvivesWrites ==
    (FindResourceOwnerDone /\ ~CatalogReadFailed)
    => /\ result.kind = "response"
       /\ \/ result.response.owner = None
          \/ /\ call.steps = <<"findOwner", "queryOne">>
             /\ "error" \notin DOMAIN result.response
             /\ Get(result.response.owner).service = Get(call.ownerName)
          \/ /\ call.steps = <<"findOwner", "queryOne">>
             /\ result.response.owner = call.ownerName
             /\ result.response.error = MissingRowError

\* The record the scan named was deleted before the fetch by name, while
\* another service that claims the id stayed in the catalog.
C30_Witness ==
    /\ FindResourceOwnerDone
    /\ result.kind = "response"
    /\ "error" \in DOMAIN result.response
    /\ result.response.error = MissingRowError
    /\ Hits(catalog, call.resource_id) # {}

\* The owner that getResourceTypeInfo found was deleted before
\* findServicesForResource read the catalog: the response names two owners.
OwnerDeletedBetweenReads ==
    /\ GetResourceDone
    /\ result.kind = "response"
    /\ "owner_context" \in DOMAIN result.response
    /\ result.response.owner_service = "order-service"
    /\ result.response.owner_context.service = "user-service"
    /\ "order-service" \notin Names(catalog)

====
